---- MODULE Spec2Model ----
(***************************************************************************)
(* Model of weather_tools: the fetcher get_malaysia_weather_forecast and   *)
(* the formatter format_weather_forecast.                                  *)
(*                                                                         *)
(* A Python str is a sequence of one-character strings, so that lower(),   *)
(* strip(), title(), strptime() and strftime() are computed character by   *)
(* character.  The degree sign is the character "deg".                     *)
(* A Python / JSON value is a tagged tuple:                                *)
(*   <<"none">>, <<"int", n>>, <<"str", chars>>, <<"list", seq>>,          *)
(*   <<"dict", pairs>> with pairs a sequence of <<key, value>>.            *)
(***************************************************************************)
EXTENDS Integers, Sequences, FiniteSets, TLC

(* ------------------------------ bounds -------------------------------- *)

\* Number of formatter calls in flight together in ConcSpec.
NumCalls == 2

\* Longest `data` sequence the API returns in Spec.
MaxRecords == 2

(* --------------------------- str primitives --------------------------- *)

Uppers ==
    <<"A", "B", "C", "D", "E", "F", "G", "H", "I", "J", "K", "L", "M",
      "N", "O", "P", "Q", "R", "S", "T", "U", "V", "W", "X", "Y", "Z">>

Lowers ==
    <<"a", "b", "c", "d", "e", "f", "g", "h", "i", "j", "k", "l", "m",
      "n", "o", "p", "q", "r", "s", "t", "u", "v", "w", "x", "y", "z">>

Digits == <<"0", "1", "2", "3", "4", "5", "6", "7", "8", "9">>

Whitespace == {" ", "\t", "\n", "\r"}

IsUpper(ch) == \E i \in 1..Len(Uppers) : Uppers[i] = ch

IsLower(ch) == \E i \in 1..Len(Lowers) : Lowers[i] = ch

IsCased(ch) == IsUpper(ch) \/ IsLower(ch)

IsDigit(ch) == \E i \in 1..Len(Digits) : Digits[i] = ch

ToLower(ch) ==
    IF IsUpper(ch)
    THEN Lowers[CHOOSE i \in 1..Len(Uppers) : Uppers[i] = ch]
    ELSE ch

ToUpper(ch) ==
    IF IsLower(ch)
    THEN Uppers[CHOOSE i \in 1..Len(Lowers) : Lowers[i] = ch]
    ELSE ch

\* str.lower()
lower(s) == [i \in 1..Len(s) |-> ToLower(s[i])]

RECURSIVE lstrip(_)
lstrip(s) ==
    IF s # <<>> /\ Head(s) \in Whitespace THEN lstrip(Tail(s)) ELSE s

RECURSIVE rstrip(_)
rstrip(s) ==
    IF s # <<>> /\ s[Len(s)] \in Whitespace
    THEN rstrip(SubSeq(s, 1, Len(s) - 1))
    ELSE s

\* str.strip()
strip(s) == rstrip(lstrip(s))

\* str.title(): a cased character is upper-cased when the character before
\* it is not cased, and lower-cased when it is.
RECURSIVE TitleFrom(_, _, _)
TitleFrom(s, i, previous_is_cased) ==
    IF i > Len(s)
    THEN <<>>
    ELSE <<IF previous_is_cased THEN ToLower(s[i]) ELSE ToUpper(s[i])>>
         \o TitleFrom(s, i + 1, IsCased(s[i]))

title(s) == TitleFrom(s, 1, FALSE)

DigitVal(ch) == (CHOOSE i \in 1..Len(Digits) : Digits[i] = ch) - 1

RECURSIVE NatToStr(_)
NatToStr(n) ==
    IF n < 10
    THEN <<Digits[n + 1]>>
    ELSE NatToStr(n \div 10) \o <<Digits[(n % 10) + 1]>>

\* str(int)
IntToStr(n) == IF n < 0 THEN <<"-">> \o NatToStr(0 - n) ELSE NatToStr(n)

(* ------------------------------ values -------------------------------- *)

PyNone == <<"none">>

PyInt(n) == <<"int", n>>

PyStr(s) == <<"str", s>>

PyList(xs) == <<"list", xs>>

PyDict(pairs) == <<"dict", pairs>>

\* bool(v), as `not data` uses it
Truthy(v) ==
    CASE v[1] = "none" -> FALSE
      [] v[1] = "int"  -> v[2] # 0
      [] OTHER         -> v[2] # <<>>

HasKey(d, k) == \E i \in 1..Len(d[2]) : d[2][i][1] = k

\* dict.get(k, default)
DictGet(d, k, default) ==
    IF HasKey(d, k)
    THEN d[2][CHOOSE i \in 1..Len(d[2]) : d[2][i][1] = k][2]
    ELSE default

\* str(v), as an f-string field renders a value
Str(v) ==
    CASE v[1] = "int" -> IntToStr(v[2])
      [] v[1] = "str" -> v[2]

(* ---------------------- datetime.strptime / strftime ------------------ *)

MonthAbbr ==
    << <<"J", "a", "n">>, <<"F", "e", "b">>, <<"M", "a", "r">>,
       <<"A", "p", "r">>, <<"M", "a", "y">>, <<"J", "u", "n">>,
       <<"J", "u", "l">>, <<"A", "u", "g">>, <<"S", "e", "p">>,
       <<"O", "c", "t">>, <<"N", "o", "v">>, <<"D", "e", "c">> >>

NonZeroDigit(ch) == IsDigit(ch) /\ ch # "0"

\* %Y of the format: exactly four digits
YearTok(t) == Len(t) = 4 /\ \A i \in 1..4 : IsDigit(t[i])

\* %m of the format: 1[0-2] | 0[1-9] | [1-9]
MonthTok(t) ==
    \/ Len(t) = 2 /\ t[1] = "1" /\ t[2] \in {"0", "1", "2"}
    \/ Len(t) = 2 /\ t[1] = "0" /\ NonZeroDigit(t[2])
    \/ Len(t) = 1 /\ NonZeroDigit(t[1])

\* %d of the format: 3[01] | [12]\d | 0[1-9] | [1-9] | " "[1-9]
DayTok(t) ==
    \/ Len(t) = 2 /\ t[1] = "3" /\ t[2] \in {"0", "1"}
    \/ Len(t) = 2 /\ t[1] \in {"1", "2"} /\ IsDigit(t[2])
    \/ Len(t) = 2 /\ t[1] \in {"0", " "} /\ NonZeroDigit(t[2])
    \/ Len(t) = 1 /\ NonZeroDigit(t[1])

RECURSIVE TokVal(_)
TokVal(t) ==
    IF t = <<>>
    THEN 0
    ELSE 10 * TokVal(SubSeq(t, 1, Len(t) - 1))
         + (IF t[Len(t)] = " " THEN 0 ELSE DigitVal(t[Len(t)]))

IsLeap(y) == (y % 4 = 0 /\ y % 100 # 0) \/ y % 400 = 0

DaysInMonth(y, m) ==
    IF m = 2
    THEN (IF IsLeap(y) THEN 29 ELSE 28)
    ELSE IF m \in {4, 6, 9, 11} THEN 30 ELSE 31

\* Position of the "-" that ends the month field: the month is one or two
\* characters long, so the dash is the 7th or the 8th character.
MonthEnd(s) ==
    IF \E p \in {7, 8} : p < Len(s) /\ s[p] = "-" /\ MonthTok(SubSeq(s, 6, p - 1))
    THEN CHOOSE p \in {7, 8} : p < Len(s) /\ s[p] = "-" /\ MonthTok(SubSeq(s, 6, p - 1))
    ELSE 0

\* The whole string matches (\d{4})-(month)-(day) with nothing left over.
MatchesFormat(s) ==
    /\ Len(s) >= 8
    /\ YearTok(SubSeq(s, 1, 4))
    /\ s[5] = "-"
    /\ MonthEnd(s) # 0
    /\ DayTok(SubSeq(s, MonthEnd(s) + 1, Len(s)))

\* mutant: the format is matched but the day is not checked against the
\* calendar
strptime_NoCalendarCheck(s) ==
    IF ~MatchesFormat(s)
    THEN <<"ValueError">>
    ELSE <<"date", TokVal(SubSeq(s, 1, 4)),
           TokVal(SubSeq(s, 6, MonthEnd(s) - 1)),
           TokVal(SubSeq(s, MonthEnd(s) + 1, Len(s)))>>

\* datetime.strptime(date, "%Y-%m-%d"): <<"date", y, m, d>>, or
\* <<"ValueError">> when the string does not match the format, data is left
\* unconverted, or the fields name no calendar day.
strptime(s) ==
    IF ~MatchesFormat(s)
    THEN <<"ValueError">>
    ELSE LET y == TokVal(SubSeq(s, 1, 4))
             m == TokVal(SubSeq(s, 6, MonthEnd(s) - 1))
             d == TokVal(SubSeq(s, MonthEnd(s) + 1, Len(s)))
         IN  IF y >= 1 /\ d <= DaysInMonth(y, m)
             THEN <<"date", y, m, d>>
             ELSE <<"ValueError">>

Pad2(n) == IF n < 10 THEN <<"0">> \o NatToStr(n) ELSE NatToStr(n)

\* date_obj.strftime('%d %b %Y')
strftime(date_obj) ==
    Pad2(date_obj[4]) \o <<" ">> \o MonthAbbr[date_obj[3]] \o <<" ">>
    \o NatToStr(date_obj[2])

(* ------------------------- the fetcher's pieces ----------------------- *)

\* the default of the timeout parameter, in seconds
DefaultTimeout == 15

base_url == "https://api.data.gov.my/weather"

\* mutant: the location is lower-cased but not trimmed
Params_NoStrip(location, date) ==
    << <<"location", lower(location)>>,
       <<"date", date>>,
       <<"category", <<"f", "o", "r", "e", "c", "a", "s", "t">>>> >>

\* the query parameters, in the order the dict literal lists them
Params(location, date) ==
    << <<"location", strip(lower(location))>>,
       <<"date", date>>,
       <<"category", <<"f", "o", "r", "e", "c", "a", "s", "t">>>> >>

Headers ==
    << <<"User-Agent", "MalaysiaWeatherForecast/1.0">>,
       <<"Accept", "application/json">> >>

\* the one client.get(...) of the fetcher, issued on client `cl`
Request(location, date, timeout, cl) ==
    [method  |-> "GET",
     url     |-> base_url,
     params  |-> Params(location, date),
     headers |-> Headers,
     timeout |-> timeout,
     client  |-> cl]

\* the message of the HTTPStatusError that raise_for_status() raises
StatusErrorText(status) ==
    CASE status \in 300..399 ->
           <<"R", "e", "d", "i", "r", "e", "c", "t", " ", "r", "e", "s", "p",
             "o", "n", "s", "e", " ", "'">> \o NatToStr(status) \o <<"'">>
      [] status \in 400..499 ->
           <<"C", "l", "i", "e", "n", "t", " ", "e", "r", "r", "o", "r", " ",
             "'">> \o NatToStr(status) \o <<"'">>
      [] status \in 500..599 ->
           <<"S", "e", "r", "v", "e", "r", " ", "e", "r", "r", "o", "r", " ",
             "'">> \o NatToStr(status) \o <<"'">>
      [] OTHER ->
           <<"I", "n", "f", "o", "r", "m", "a", "t", "i", "o", "n", "a", "l",
             " ", "r", "e", "s", "p", "o", "n", "s", "e", " ", "'">> \o NatToStr(status) \o <<"'">>

\* mutant: raise_for_status() is not called
RaisesForStatus_Never(status) == FALSE

\* response.raise_for_status(): raises unless the status is 2xx
RaisesForStatus(status) == status \notin 200..299

\* What the try block makes of the outcome `o` of the awaited request:
\*   <<"error", type, text>>              client.get raised
\*   <<"response", status, <<"json", v>>>>     a body that parses to v
\*   <<"response", status, <<"invalid", text>>>>  a body json() rejects
\* The result is <<"return", value>> or <<"raise", type, text>>.
TryBlock(o) ==
    CASE o[1] = "error" -> <<"raise", o[2], o[3]>>
      [] o[1] = "response" /\ RaisesForStatus(o[2]) ->
           <<"raise", "HTTPStatusError", StatusErrorText(o[2])>>
      [] o[1] = "response" /\ ~RaisesForStatus(o[2]) /\ o[3][1] = "invalid" ->
           <<"raise", "JSONDecodeError", o[3][2]>>
      [] OTHER -> <<"return", o[3][2]>>

\* mutant: except httpx.HTTPError, which a JSON decoding error is not
CaughtByExcept_HTTPErrorOnly(type) ==
    type \in {"ConnectError", "ReadTimeout", "HTTPStatusError"}

\* except Exception: only a BaseException that is no Exception gets past
CaughtByExcept(type) == type \notin {"CancelledError", "KeyboardInterrupt"}

\* print(f"Weather API error: {str(e)}")
ErrorLine(text) == <<"W", "e", "a", "t", "h", "e", "r", " ", "A", "P", "I", " ", "e",
      "r", "r", "o", "r", ":", " ">> \o text

(* ------------------------ the formatter's pieces ---------------------- *)

\* not data or not data.get("data")
NoData(data) ==
    ~Truthy(data) \/ ~Truthy(DictGet(data, "data", PyNone))

\* mutant: the location is shown as supplied, not title-cased
Fallback_NoTitle(location, date) ==
    <<"N", "o", " ", "f", "o", "r", "e", "c", "a", "s", "t", " ", "a",
      "v", "a", "i", "l", "a", "b", "l", "e", " ", "f", "o", "r", " ">>
    \o location \o <<" ", "o", "n", " ">> \o date

\* f"No forecast available for {location.title()} on {date}"
Fallback(location, date) ==
    <<"N", "o", " ", "f", "o", "r", "e", "c", "a", "s", "t", " ", "a",
      "v", "a", "i", "l", "a", "b", "l", "e", " ", "f", "o", "r", " ">>
    \o title(location) \o <<" ", "o", "n", " ">> \o date

\* mutant: the last record is taken, data["data"][-1]
FirstRecord_Last(data) ==
    LET xs == DictGet(data, "data", PyNone)[2] IN xs[Len(xs)]

\* data["data"][0]
FirstRecord(data) == DictGet(data, "data", PyNone)[2][1]

NA == PyStr(<<"N", "/", "A">>)

\* mutant: forecast.get(key) or 'N/A', which also replaces 0 and ""
Field_OrDefault(forecast, key) ==
    LET v == DictGet(forecast, key, PyNone)
    IN  IF Truthy(v) THEN Str(v) ELSE <<"N", "/", "A">>

\* forecast.get(key, 'N/A') as the f-string renders it
Field(forecast, key) == Str(DictGet(forecast, key, NA))

\* forecast.get('wind_direction', '')
WindDirection(forecast) == Str(DictGet(forecast, "wind_direction", PyStr(<<>>)))

\* mutant: the title shows the location as it was sent over the wire
TitleLine_WireLocation(location, date_obj) ==
    title(strip(lower(location))) \o <<" ", "W", "e", "a", "t", "h", "e", "r", " ", "F", "o", "r", "e",
      "c", "a", "s", "t", " ", "(">>
    \o strftime(date_obj) \o <<")", ":", "\n">>

\* f"{location.title()} Weather Forecast ({date_obj.strftime('%d %b %Y')}):\n"
TitleLine(location, date_obj) ==
    title(location) \o <<" ", "W", "e", "a", "t", "h", "e", "r", " ", "F", "o", "r", "e",
      "c", "a", "s", "t", " ", "(">>
    \o strftime(date_obj) \o <<")", ":", "\n">>

\* the report of the return statement
Report(location, date_obj, forecast) ==
    TitleLine(location, date_obj)
    \o <<"C", "o", "n", "d", "i", "t", "i", "o", "n", ":", " ">> \o Field(forecast, "weather_condition") \o <<"\n">>
    \o <<"T", "e", "m", "p", "e", "r", "a", "t", "u", "r", "e", ":", " ">> \o Field(forecast, "temperature_min")
    \o <<"deg", "C", " ", "-", " ">> \o Field(forecast, "temperature_max") \o <<"deg", "C", "\n">>
    \o <<"H", "u", "m", "i", "d", "i", "t", "y", ":", " ">> \o Field(forecast, "humidity_min")
    \o <<"%", " ", "-", " ">> \o Field(forecast, "humidity_max") \o <<"%", "\n">>
    \o <<"W", "i", "n", "d", ":", " ">> \o Field(forecast, "wind_speed")
    \o <<" ", "k", "m", "/", "h", " ">> \o WindDirection(forecast) \o <<"\n">>
    \o <<"R", "a", "i", "n", " ", "P", "r", "o", "b", "a", "b", "i", "l",
      "i", "t", "y", ":", " ">> \o Field(forecast, "rain_probability")
    \o <<"%", "\n">>
    \o <<"\n", "S", "o", "u", "r", "c", "e", ":", " ", "D", "a", "t", "a",
      ".", "g", "o", "v", ".", "m", "y", " ", "W", "e", "a", "t", "h",
      "e", "r", " ", "A", "P", "I">>

(* ------------------------------ inputs -------------------------------- *)

Locations ==
    { <<"P", "e", "n", "a", "n", "g">>,
      <<"b", "a", "y", "a", "n", " ", "l", "e", "p", "a", "s">>,
      <<" ", " ", "K", "u", "a", "l", "a", " ", "L", "u", "m", "p", "u",
        "r", " ", " ">>,
      <<"J", "O", "H", "O", "R", " ", "b", "a", "h", "r", "u", "\t">> }

\* parseable: padded, unpadded, a leap day; not parseable: 29 February of a
\* common year, day-month-year order, a trailing blank
Dates ==
    { <<"2", "0", "2", "5", "-", "0", "8", "-", "0", "6">>,
      <<"2", "0", "2", "5", "-", "8", "-", "6">>,
      <<"2", "0", "2", "4", "-", "0", "2", "-", "2", "9">>,
      <<"2", "0", "2", "5", "-", "0", "2", "-", "2", "9">>,
      <<"0", "6", "-", "0", "8", "-", "2", "0", "2", "5">>,
      <<"2", "0", "2", "5", "-", "0", "8", "-", "0", "6", " ">> }

FullRecord ==
    PyDict(<< <<"weather_condition", PyStr(<<"S", "u", "n", "n", "y">>)>>,
              <<"temperature_min", PyInt(24)>>,
              <<"temperature_max", PyInt(32)>>,
              <<"humidity_min", PyInt(60)>>,
              <<"humidity_max", PyInt(85)>>,
              <<"wind_speed", PyInt(10)>>,
              <<"wind_direction", PyStr(<<"N", "E">>)>>,
              <<"rain_probability", PyInt(20)>> >>)

SparseRecord ==
    PyDict(<< <<"station", PyStr(<<"W", "M", "K", "P">>)>>,
              <<"temperature_max", PyInt(30)>>,
              <<"wind_speed", PyInt(5)>> >>)

ZeroRecord ==
    PyDict(<< <<"weather_condition", PyStr(<<>>)>>,
              <<"temperature_min", PyInt(-1)>>,
              <<"temperature_max", PyInt(0)>>,
              <<"humidity_min", PyInt(0)>>,
              <<"humidity_max", PyInt(100)>>,
              <<"wind_speed", PyInt(0)>>,
              <<"wind_direction", PyStr(<<>>)>>,
              <<"rain_probability", PyInt(0)>> >>)

EmptyRecord == PyDict(<<>>)

Records == {FullRecord, SparseRecord, ZeroRecord, EmptyRecord}

DataSeqs == UNION {[1..n -> Records] : n \in 0..MaxRecords}

Meta == <<"meta", PyDict(<< <<"count", PyInt(1)>> >>)>>

\* JSON objects: without `data`, with `data` alone, with `data` after
\* another key
Bodies ==
    {PyDict(<<>>), PyDict(<<Meta>>)}
    \cup {PyDict(<< <<"data", PyList(xs)>> >>) : xs \in DataSeqs}
    \cup {PyDict(<<Meta, <<"data", PyList(xs)>> >>) : xs \in DataSeqs}

JSONErrorText == <<"E", "x", "p", "e", "c", "t", "i", "n", "g", " ", "v", "a", "l",
      "u", "e", ":", " ", "l", "i", "n", "e", " ", "1", " ", "c", "o",
      "l", "u", "m", "n", " ", "1", " ", "(", "c", "h", "a", "r", " ",
      "0", ")">>

\* what the awaited client.get can come back with
Outcomes ==
    { <<"error", "ConnectError", <<"A", "l", "l", " ", "c", "o", "n", "n", "e", "c", "t", "i", "o",
      "n", " ", "a", "t", "t", "e", "m", "p", "t", "s", " ", "f", "a",
      "i", "l", "e", "d">>>>,
      <<"error", "ReadTimeout", <<>> >>,
      <<"error", "CancelledError", <<>> >>,
      <<"response", 200, <<"invalid", JSONErrorText>> >>,
      <<"response", 204, <<"invalid", JSONErrorText>> >>,
      <<"response", 201, <<"json", PyDict(<< <<"data", PyList(<<FullRecord>>)>> >>)>> >>,
      <<"response", 301, <<"invalid", JSONErrorText>> >>,
      <<"response", 404, <<"json", PyDict(<<Meta>>)>> >>,
      <<"response", 500, <<"invalid", JSONErrorText>> >>,
      <<"response", 503, <<"json", PyDict(<< <<"data", PyList(<<FullRecord>>)>> >>)>> >> }
    \cup {<<"response", 200, <<"json", b>> >> : b \in Bodies}

\* a call: <<entry point, location, date, timeout>>; the formatter has no
\* timeout parameter and the fetcher then runs with its default
Calls ==
    {<<"format", l, d, DefaultTimeout>> : l \in Locations, d \in Dates}
    \cup {<<"fetch", l, d, t>> : l \in Locations, d \in Dates,
                                  t \in {DefaultTimeout, 5}}

\* the calls and outcomes of the concurrent specification
ConcCalls ==
    { <<"format", <<"P", "e", "n", "a", "n", "g">>, <<"2", "0", "2", "5", "-", "0", "8", "-", "0", "6">>, DefaultTimeout>>,
      <<"format", <<" ", " ", "K", "u", "a", "l", "a", " ", "L", "u", "m", "p", "u",
        "r", " ", " ">>, <<"0", "6", "-", "0", "8", "-", "2", "0", "2", "5">>, DefaultTimeout>> }

ConcOutcomes ==
    { <<"error", "ConnectError", <<"A", "l", "l", " ", "c", "o", "n", "n", "e", "c", "t", "i", "o",
      "n", " ", "a", "t", "t", "e", "m", "p", "t", "s", " ", "f", "a",
      "i", "l", "e", "d">>>>,
      <<"response", 200, <<"json", PyDict(<< <<"data", PyList(<<FullRecord>>)>> >>)>> >>,
      <<"response", 200, <<"json", PyDict(<<Meta, <<"data", PyList(<<FullRecord, SparseRecord>>)>> >>)>> >> }

(* ------------------------------- state -------------------------------- *)

VARIABLES
    pc,        \* pc[c]: where call c stands
    entry,     \* entry[c]: "format" or "fetch", the function called
    location,  \* the call's arguments
    date,
    timeout,
    client,    \* client[c]: the AsyncClient the call opened (0: none yet)
    clients,   \* clients[i]: "open" or "closed", every client ever made
    sent,      \* sent[c]: the requests the call put on the wire
    response,  \* response[c]: what its request came back with
    pending,   \* pending[c]: what the try block is about to return or raise
    data,      \* formatter local `data`
    forecast,  \* formatter local `forecast`
    date_obj,  \* formatter local `date_obj`
    result,    \* result[c]: what the call returned or raised
    stdout,    \* the lines printed, oldest first
    trace      \* trace[c]: the steps the call has executed, oldest first

vars ==
    <<pc, entry, location, date, timeout, client, clients, sent, response,
      pending, data, forecast, date_obj, result, stdout, trace>>

Unset == <<"unset">>

InitFor(ids) ==
    /\ pc = [c \in ids |-> "idle"]
    /\ entry = [c \in ids |-> "none"]
    /\ location = [c \in ids |-> <<>>]
    /\ date = [c \in ids |-> <<>>]
    /\ timeout = [c \in ids |-> 0]
    /\ client = [c \in ids |-> 0]
    /\ clients = <<>>
    /\ sent = [c \in ids |-> <<>>]
    /\ response = [c \in ids |-> Unset]
    /\ pending = [c \in ids |-> Unset]
    /\ data = [c \in ids |-> Unset]
    /\ forecast = [c \in ids |-> Unset]
    /\ date_obj = [c \in ids |-> Unset]
    /\ result = [c \in ids |-> Unset]
    /\ stdout = <<>>
    /\ trace = [c \in ids |-> <<>>]

\* one call
SingleCall == {1}

Init == InitFor(SingleCall)

\* NumCalls formatter calls started together (asyncio.gather)
ConcurrentCalls == 1..NumCalls

ConcInit == InitFor(ConcurrentCalls)

Step(c, to, name) ==
    /\ pc' = [pc EXCEPT ![c] = to]
    /\ trace' = [trace EXCEPT ![c] = Append(@, name)]

(* ------------------------------ actions ------------------------------- *)

\* The function is entered with its arguments bound.
Call(c, calls) ==
    /\ pc[c] = "idle"
    /\ \E a \in calls :
         /\ entry' = [entry EXCEPT ![c] = a[1]]
         /\ location' = [location EXCEPT ![c] = a[2]]
         /\ date' = [date EXCEPT ![c] = a[3]]
         /\ timeout' = [timeout EXCEPT ![c] = a[4]]
    /\ Step(c, "called", "call")
    /\ UNCHANGED <<client, clients, sent, response, pending, data, forecast,
                   date_obj, result, stdout>>

\* mutant: one module-level client that every call uses
OpenClient_Shared(c) ==
    /\ pc[c] = "called"
    /\ clients' = IF clients = <<>> THEN <<"open">> ELSE clients
    /\ client' = [client EXCEPT ![c] = 1]
    /\ Step(c, "opened", "open")
    /\ UNCHANGED <<entry, location, date, timeout, sent, response, pending,
                   data, forecast, date_obj, result, stdout>>

\* async with httpx.AsyncClient() as client: a new client object
OpenClient(c) ==
    /\ pc[c] = "called"
    /\ clients' = Append(clients, "open")
    /\ client' = [client EXCEPT ![c] = Len(clients) + 1]
    /\ Step(c, "opened", "open")
    /\ UNCHANGED <<entry, location, date, timeout, sent, response, pending,
                   data, forecast, date_obj, result, stdout>>

\* await client.get(...): the request leaves and the call is suspended
SendRequest(c) ==
    /\ pc[c] = "opened"
    /\ sent' = [sent EXCEPT ![c] =
                  Append(@, Request(location[c], date[c], timeout[c], client[c]))]
    /\ Step(c, "awaiting", "request")
    /\ UNCHANGED <<entry, location, date, timeout, client, clients, response,
                   pending, data, forecast, date_obj, result, stdout>>

\* The awaited request ends with outcome o; raise_for_status() and json()
\* run on a response.
Receive(c, outcomes) ==
    /\ pc[c] = "awaiting"
    /\ \E o \in outcomes :
         /\ response' = [response EXCEPT ![c] = o]
         /\ pending' = [pending EXCEPT ![c] = TryBlock(o)]
    /\ Step(c, "closing", "response")
    /\ UNCHANGED <<entry, location, date, timeout, client, clients, sent,
                   data, forecast, date_obj, result, stdout>>

\* Leaving the async with block closes the call's client, on a return and
\* on an exception alike.
CloseClient(c) ==
    /\ pc[c] = "closing"
    /\ clients' = [clients EXCEPT ![client[c]] = "closed"]
    /\ Step(c, "exited", "close")
    /\ UNCHANGED <<entry, location, date, timeout, client, sent, response,
                   pending, data, forecast, date_obj, result, stdout>>

\* The fetcher returns: the parsed body, or None after printing the caught
\* exception; an exception the except clause does not catch goes to the
\* caller, and through the formatter, which has no handler.
FetchReturn(c) ==
    /\ pc[c] = "exited"
    /\ LET p == pending[c]
           caught == p[1] = "raise" /\ CaughtByExcept(p[2])
           escapes == p[1] = "raise" /\ ~CaughtByExcept(p[2])
           ret == IF p[1] = "return" THEN p[2] ELSE PyNone
       IN  /\ stdout' = IF caught THEN Append(stdout, ErrorLine(p[3])) ELSE stdout
           /\ IF escapes
              THEN /\ result' = [result EXCEPT ![c] = <<"raise", p[2]>>]
                   /\ data' = data
                   /\ Step(c, "raised", "raise")
              ELSE IF entry[c] = "fetch"
              THEN /\ result' = [result EXCEPT ![c] = <<"return", ret>>]
                   /\ data' = data
                   /\ Step(c, "done", "return")
              ELSE /\ result' = result
                   /\ data' = [data EXCEPT ![c] = ret]
                   /\ Step(c, "fetched", "fetched")
    /\ UNCHANGED <<entry, location, date, timeout, client, clients, sent,
                   response, pending, forecast, date_obj>>

\* mutant: the date is parsed before the result of the fetch is looked at
Branch_ParseFirst(c) ==
    /\ pc[c] = "fetched"
    /\ IF strptime(date[c])[1] # "date"
       THEN /\ result' = [result EXCEPT ![c] = <<"raise", "ValueError">>]
            /\ forecast' = forecast
            /\ Step(c, "raised", "strptime")
       ELSE IF NoData(data[c])
       THEN /\ result' = [result EXCEPT ![c] =
                            <<"return", PyStr(Fallback(location[c], date[c]))>>]
            /\ forecast' = forecast
            /\ Step(c, "done", "fallback")
       ELSE /\ forecast' = [forecast EXCEPT ![c] = FirstRecord(data[c])]
            /\ result' = result
            /\ Step(c, "parse", "first")
    /\ UNCHANGED <<entry, location, date, timeout, client, clients, sent,
                   response, pending, data, date_obj, stdout>>

\* if not data or not data.get("data"): return the fallback;
\* otherwise forecast = data["data"][0]
Branch(c) ==
    /\ pc[c] = "fetched"
    /\ IF NoData(data[c])
       THEN /\ result' = [result EXCEPT ![c] =
                            <<"return", PyStr(Fallback(location[c], date[c]))>>]
            /\ forecast' = forecast
            /\ Step(c, "done", "fallback")
       ELSE /\ forecast' = [forecast EXCEPT ![c] = FirstRecord(data[c])]
            /\ result' = result
            /\ Step(c, "parse", "first")
    /\ UNCHANGED <<entry, location, date, timeout, client, clients, sent,
                   response, pending, data, date_obj, stdout>>

\* date_obj = datetime.strptime(date, "%Y-%m-%d"): the ValueError of an
\* unparseable date is not handled
ParseDate(c) ==
    /\ pc[c] = "parse"
    /\ LET d == strptime(date[c])
       IN  IF d[1] = "date"
           THEN /\ date_obj' = [date_obj EXCEPT ![c] = d]
                /\ result' = result
                /\ Step(c, "render", "strptime")
           ELSE /\ date_obj' = date_obj
                /\ result' = [result EXCEPT ![c] = <<"raise", "ValueError">>]
                /\ Step(c, "raised", "strptime")
    /\ UNCHANGED <<entry, location, date, timeout, client, clients, sent,
                   response, pending, data, forecast, stdout>>

\* return ( f"..." ): the report
Render(c) ==
    /\ pc[c] = "render"
    /\ result' = [result EXCEPT ![c] =
                    <<"return", PyStr(Report(location[c], date_obj[c], forecast[c]))>>]
    /\ Step(c, "done", "report")
    /\ UNCHANGED <<entry, location, date, timeout, client, clients, sent,
                   response, pending, data, forecast, date_obj, stdout>>

Next ==
    \E c \in SingleCall :
        \/ Call(c, Calls)
        \/ OpenClient(c)
        \/ SendRequest(c)
        \/ Receive(c, Outcomes)
        \/ CloseClient(c)
        \/ FetchReturn(c)
        \/ Branch(c)
        \/ ParseDate(c)
        \/ Render(c)

Spec == Init /\ [][Next]_vars

ConcNext ==
    \E c \in ConcurrentCalls :
        \/ Call(c, ConcCalls)
        \/ OpenClient(c)
        \/ SendRequest(c)
        \/ Receive(c, ConcOutcomes)
        \/ CloseClient(c)
        \/ FetchReturn(c)
        \/ Branch(c)
        \/ ParseDate(c)
        \/ Render(c)

ConcSpec == ConcInit /\ [][ConcNext]_vars

(* ====================================================================== *)
(* Properties.  The expected strings below are written out per input, not *)
(* computed with the operators above.                                     *)
(* ====================================================================== *)

Finished(c) == pc[c] \in {"done", "raised"}

\* the fetcher has returned (to the formatter, or to its caller)
FetchReturned(c) ==
    \E i \in 1..Len(trace[c]) : trace[c][i] \in {"fetched", "return"}

\* what the fetcher returned
FetchValue(c) == IF entry[c] = "fetch" THEN result[c][2] ELSE data[c]

\* a failure of the request: network error, timeout, non-2xx status, or a
\* body that is not JSON
IsFailure(o) ==
    \/ o[1] = "error" /\ o[2] \in {"ConnectError", "ReadTimeout"}
    \/ o[1] = "response" /\ (o[2] < 200 \/ o[2] > 299)
    \/ o[1] = "response" /\ o[3][1] = "invalid"

\* the textual description of each failure the model's API produces
FailureText(o) ==
    CASE o[1] = "error" -> o[3]
      [] o[1] = "response" /\ o[2] = 301 -> <<"R", "e", "d", "i", "r", "e", "c", "t", " ", "r", "e", "s", "p",
        "o", "n", "s", "e", " ", "'", "3", "0", "1", "'">>
      [] o[1] = "response" /\ o[2] = 404 -> <<"C", "l", "i", "e", "n", "t", " ", "e", "r", "r", "o", "r", " ",
        "'", "4", "0", "4", "'">>
      [] o[1] = "response" /\ o[2] = 500 -> <<"S", "e", "r", "v", "e", "r", " ", "e", "r", "r", "o", "r", " ",
        "'", "5", "0", "0", "'">>
      [] o[1] = "response" /\ o[2] = 503 -> <<"S", "e", "r", "v", "e", "r", " ", "e", "r", "r", "o", "r", " ",
        "'", "5", "0", "3", "'">>
      [] OTHER -> o[3][2]

\* a 2xx response whose body parses
IsSuccess(o) ==
    o[1] = "response" /\ o[2] >= 200 /\ o[2] <= 299 /\ o[3][1] = "json"

\* the `data` sequence of a successful response (empty when there is none)
DataOf(o) ==
    LET pairs == o[3][2][2]
    IN  IF \E i \in 1..Len(pairs) : pairs[i][1] = "data"
        THEN pairs[CHOOSE i \in 1..Len(pairs) : pairs[i][1] = "data"][2][2]
        ELSE <<>>

\* the response carries at least one forecast record
HasRecords(o) == IsSuccess(o) /\ DataOf(o) # <<>>

\* the location as it goes over the wire
WireOf(loc) ==
    CASE loc = <<"P", "e", "n", "a", "n", "g">> -> <<"p", "e", "n", "a", "n", "g">>
      [] loc = <<"b", "a", "y", "a", "n", " ", "l", "e", "p", "a", "s">> -> <<"b", "a", "y", "a", "n", " ", "l", "e", "p", "a", "s">>
      [] loc = <<" ", " ", "K", "u", "a", "l", "a", " ", "L", "u", "m", "p", "u",
        "r", " ", " ">> -> <<"k", "u", "a", "l", "a", " ", "l", "u", "m", "p", "u", "r">>
      [] loc = <<"J", "O", "H", "O", "R", " ", "b", "a", "h", "r", "u", "\t">> -> <<"j", "o", "h", "o", "r", " ", "b", "a", "h", "r", "u">>

\* the location as it is displayed
TitleOf(loc) ==
    CASE loc = <<"P", "e", "n", "a", "n", "g">> -> <<"P", "e", "n", "a", "n", "g">>
      [] loc = <<"b", "a", "y", "a", "n", " ", "l", "e", "p", "a", "s">> -> <<"B", "a", "y", "a", "n", " ", "L", "e", "p", "a", "s">>
      [] loc = <<" ", " ", "K", "u", "a", "l", "a", " ", "L", "u", "m", "p", "u",
        "r", " ", " ">> -> <<" ", " ", "K", "u", "a", "l", "a", " ", "L", "u", "m", "p", "u",
        "r", " ", " ">>
      [] loc = <<"J", "O", "H", "O", "R", " ", "b", "a", "h", "r", "u", "\t">> -> <<"J", "o", "h", "o", "r", " ", "B", "a", "h", "r", "u", "\t">>

GoodDates ==
    { <<"2", "0", "2", "5", "-", "0", "8", "-", "0", "6">>,
      <<"2", "0", "2", "5", "-", "8", "-", "6">>,
      <<"2", "0", "2", "4", "-", "0", "2", "-", "2", "9">> }

BadDates ==
    { <<"2", "0", "2", "5", "-", "0", "2", "-", "2", "9">>,
      <<"0", "6", "-", "0", "8", "-", "2", "0", "2", "5">>,
      <<"2", "0", "2", "5", "-", "0", "8", "-", "0", "6", " ">> }

\* DD Mon YYYY
DisplayOf(d) ==
    CASE d = <<"2", "0", "2", "5", "-", "0", "8", "-", "0", "6">> -> <<"0", "6", " ", "A", "u", "g", " ", "2", "0", "2", "5">>
      [] d = <<"2", "0", "2", "5", "-", "8", "-", "6">> -> <<"0", "6", " ", "A", "u", "g", " ", "2", "0", "2", "5">>
      [] d = <<"2", "0", "2", "4", "-", "0", "2", "-", "2", "9">> -> <<"2", "9", " ", "F", "e", "b", " ", "2", "0", "2", "4">>

FallbackOf(loc, d) ==
    <<"N", "o", " ", "f", "o", "r", "e", "c", "a", "s", "t", " ", "a",
      "v", "a", "i", "l", "a", "b", "l", "e", " ", "f", "o", "r", " ">> \o TitleOf(loc) \o <<" ", "o", "n", " ">> \o d

\* the lines after the title line, for each record of the model
LinesOf(rec) ==
    CASE rec = FullRecord ->
           <<"C", "o", "n", "d", "i", "t", "i", "o", "n", ":", " ", "S", "u",
             "n", "n", "y", "\n", "T", "e", "m", "p", "e", "r", "a", "t", "u",
             "r", "e", ":", " ", "2", "4", "deg", "C", " ", "-", " ", "3",
             "2", "deg", "C", "\n", "H", "u", "m", "i", "d", "i", "t", "y",
             ":", " ", "6", "0", "%", " ", "-", " ", "8", "5", "%", "\n", "W",
             "i", "n", "d", ":", " ", "1", "0", " ", "k", "m", "/", "h", " ",
             "N", "E", "\n", "R", "a", "i", "n", " ", "P", "r", "o", "b", "a",
             "b", "i", "l", "i", "t", "y", ":", " ", "2", "0", "%", "\n",
             "\n", "S", "o", "u", "r", "c", "e", ":", " ", "D", "a", "t", "a",
             ".", "g", "o", "v", ".", "m", "y", " ", "W", "e", "a", "t", "h",
             "e", "r", " ", "A", "P", "I">>
      [] rec = SparseRecord ->
           <<"C", "o", "n", "d", "i", "t", "i", "o", "n", ":", " ", "N", "/",
             "A", "\n", "T", "e", "m", "p", "e", "r", "a", "t", "u", "r", "e",
             ":", " ", "N", "/", "A", "deg", "C", " ", "-", " ", "3", "0",
             "deg", "C", "\n", "H", "u", "m", "i", "d", "i", "t", "y", ":",
             " ", "N", "/", "A", "%", " ", "-", " ", "N", "/", "A", "%", "\n",
             "W", "i", "n", "d", ":", " ", "5", " ", "k", "m", "/", "h", " ",
             "\n", "R", "a", "i", "n", " ", "P", "r", "o", "b", "a", "b", "i",
             "l", "i", "t", "y", ":", " ", "N", "/", "A", "%", "\n", "\n",
             "S", "o", "u", "r", "c", "e", ":", " ", "D", "a", "t", "a", ".",
             "g", "o", "v", ".", "m", "y", " ", "W", "e", "a", "t", "h", "e",
             "r", " ", "A", "P", "I">>
      [] rec = ZeroRecord ->
           <<"C", "o", "n", "d", "i", "t", "i", "o", "n", ":", " ", "\n", "T",
             "e", "m", "p", "e", "r", "a", "t", "u", "r", "e", ":", " ", "-",
             "1", "deg", "C", " ", "-", " ", "0", "deg", "C", "\n", "H", "u",
             "m", "i", "d", "i", "t", "y", ":", " ", "0", "%", " ", "-", " ",
             "1", "0", "0", "%", "\n", "W", "i", "n", "d", ":", " ", "0", " ",
             "k", "m", "/", "h", " ", "\n", "R", "a", "i", "n", " ", "P", "r",
             "o", "b", "a", "b", "i", "l", "i", "t", "y", ":", " ", "0", "%",
             "\n", "\n", "S", "o", "u", "r", "c", "e", ":", " ", "D", "a",
             "t", "a", ".", "g", "o", "v", ".", "m", "y", " ", "W", "e", "a",
             "t", "h", "e", "r", " ", "A", "P", "I">>
      [] rec = EmptyRecord ->
           <<"C", "o", "n", "d", "i", "t", "i", "o", "n", ":", " ", "N", "/",
             "A", "\n", "T", "e", "m", "p", "e", "r", "a", "t", "u", "r", "e",
             ":", " ", "N", "/", "A", "deg", "C", " ", "-", " ", "N", "/",
             "A", "deg", "C", "\n", "H", "u", "m", "i", "d", "i", "t", "y",
             ":", " ", "N", "/", "A", "%", " ", "-", " ", "N", "/", "A", "%",
             "\n", "W", "i", "n", "d", ":", " ", "N", "/", "A", " ", "k", "m",
             "/", "h", " ", "\n", "R", "a", "i", "n", " ", "P", "r", "o", "b",
             "a", "b", "i", "l", "i", "t", "y", ":", " ", "N", "/", "A", "%",
             "\n", "\n", "S", "o", "u", "r", "c", "e", ":", " ", "D", "a",
             "t", "a", ".", "g", "o", "v", ".", "m", "y", " ", "W", "e", "a",
             "t", "h", "e", "r", " ", "A", "P", "I">>

ReportOf(loc, d, rec) ==
    TitleOf(loc) \o <<" ", "W", "e", "a", "t", "h", "e", "r", " ", "F", "o", "r", "e",
      "c", "a", "s", "t", " ", "(">> \o DisplayOf(d) \o <<")", ":", "\n">>
    \o LinesOf(rec)

Returned(c, text) == pc[c] = "done" /\ result[c] = <<"return", PyStr(text)>>

(* C1: when the request fails (network error, timeout, non-2xx status, a  *)
(* body that is not JSON) the fetcher returns None, raises nothing, and   *)
(* the one line printed is "Weather API error: " followed by the          *)
(* failure's text; on a 2xx response with a JSON body it returns the      *)
(* parsed body unchanged and prints nothing.                              *)
C1_FetcherSwallowsFailures ==
    \A c \in DOMAIN pc :
        LET o == response[c]
        IN  /\ (FetchReturned(c) \/ Finished(c)) /\ IsFailure(o) =>
                  /\ FetchReturned(c)
                  /\ FetchValue(c) = PyNone
                  /\ stdout = <<<<"W", "e", "a", "t", "h", "e", "r", " ", "A", "P", "I", " ", "e",
                    "r", "r", "o", "r", ":", " ">> \o FailureText(o)>>
            /\ (FetchReturned(c) \/ Finished(c)) /\ IsSuccess(o) =>
                  /\ FetchReturned(c)
                  /\ FetchValue(c) = o[3][2]
                  /\ stdout = <<>>

C1_Witness ==
    \E c \in DOMAIN pc :
        /\ entry[c] = "fetch"
        /\ pc[c] = "done"
        /\ response[c] = <<"response", 200, <<"invalid", JSONErrorText>> >>
        /\ result[c] = <<"return", PyNone>>
        /\ Len(stdout) = 1

(* C3: when the fetch fails for an external reason, the formatter returns *)
(* normally, and what it returns is the "No forecast available" message.  *)
C3_ExternalFailureGivesFallback ==
    \A c \in DOMAIN pc :
        entry[c] = "format" /\ IsFailure(response[c])
        /\ (Finished(c) \/ FetchReturned(c)) =>
            /\ pc[c] \in {"fetched", "done"}
            /\ pc[c] = "done" => Returned(c, FallbackOf(location[c], date[c]))

C3_Witness ==
    \E c \in DOMAIN pc :
        /\ entry[c] = "format"
        /\ response[c][1] = "response" /\ response[c][2] = 500
        /\ Returned(c, FallbackOf(location[c], date[c]))

(* C4: a call sends no request before its client is open and exactly one  *)
(* from then on: a GET whose location is the caller's lower-cased and     *)
(* trimmed, whose date is the caller's unchanged, with category=forecast. *)
C4_ExactlyOneRequest ==
    \A c \in DOMAIN pc :
        IF pc[c] \in {"idle", "called", "opened"}
        THEN sent[c] = <<>>
        ELSE /\ Len(sent[c]) = 1
             /\ sent[c][1].method = "GET"
             /\ sent[c][1].params =
                    << <<"location", WireOf(location[c])>>,
                       <<"date", date[c]>>,
                       <<"category", <<"f", "o", "r", "e", "c", "a", "s", "t">>>> >>

C4_Witness ==
    \E c \in DOMAIN pc :
        /\ Finished(c)
        /\ IsFailure(response[c])
        /\ location[c] = <<" ", " ", "K", "u", "a", "l", "a", " ", "L", "u", "m", "p", "u",
          "r", " ", " ">>
        /\ Len(sent[c]) = 1
        /\ sent[c][1].params[1][2] = <<"k", "u", "a", "l", "a", " ", "l", "u", "m", "p", "u", "r">>

StartsWith(s, prefix) ==
    Len(s) >= Len(prefix) /\ SubSeq(s, 1, Len(prefix)) = prefix

Executed(c, name) == \E i \in 1..Len(trace[c]) : trace[c][i] = name

(* C2, as claimed: a formatter call whose date is not a parseable         *)
(* YYYY-MM-DD string ends with an error propagating to the caller,        *)
(* whatever the fetch came back with.                                     *)
C2_BadDateAlwaysFatal ==
    \A c \in DOMAIN pc :
        entry[c] = "format" /\ date[c] \in BadDates /\ Finished(c) =>
            pc[c] = "raised"

(* C2, amended: for a formatter call whose date is not parseable, once    *)
(* the fetch has returned, the call fails with the ValueError of the date *)
(* when the response carries at least one record, and returns the         *)
(* fallback message, raising nothing, when the fetch failed or `data` is  *)
(* missing or empty.                                                      *)
C2_BadDateFatalOnlyWithRecords ==
    \A c \in DOMAIN pc :
        entry[c] = "format" /\ date[c] \in BadDates /\ Finished(c)
        /\ FetchReturned(c) =>
            IF HasRecords(response[c])
            THEN pc[c] = "raised" /\ result[c] = <<"raise", "ValueError">>
            ELSE Returned(c, FallbackOf(location[c], date[c]))

C2_Witness ==
    \E c \in DOMAIN pc :
        /\ entry[c] = "format"
        /\ date[c] = <<"2", "0", "2", "5", "-", "0", "2", "-", "2", "9">>
        /\ HasRecords(response[c])
        /\ pc[c] = "raised"
        /\ result[c] = <<"raise", "ValueError">>

(* C5: the formatter returns "No forecast available for {Title} on        *)
(* {date}", the date as supplied, exactly when the fetch result is absent *)
(* or its `data` is missing or empty; with a record and a valid date it   *)
(* returns a report, which opens with the title line.                     *)
C5_FallbackIffNoData ==
    \A c \in DOMAIN pc :
        entry[c] = "format" /\ Finished(c) /\ FetchReturned(c) =>
            /\ Returned(c, FallbackOf(location[c], date[c]))
                 <=> ~HasRecords(response[c])
            /\ HasRecords(response[c]) /\ date[c] \in GoodDates =>
                 /\ pc[c] = "done"
                 /\ result[c][1] = "return"
                 /\ StartsWith(result[c][2][2],
                               TitleOf(location[c]) \o <<" ", "W", "e", "a", "t", "h", "e", "r", " ", "F", "o", "r", "e",
                                 "c", "a", "s", "t", " ", "(">>)

C5_Witness ==
    \E c \in DOMAIN pc :
        /\ entry[c] = "format"
        /\ date[c] = <<"0", "6", "-", "0", "8", "-", "2", "0", "2", "5">>
        /\ response[c] = <<"response", 200, <<"json", PyDict(<<Meta, <<"data", PyList(<<>>)>> >>)>> >>
        /\ Returned(c, FallbackOf(location[c], date[c]))

(* C6: with a valid date and a response whose `data` is not empty, the    *)
(* formatter returns the title line (title-cased location, date as DD Mon *)
(* YYYY), the five field lines of the first record, a blank line and the  *)
(* attribution line; a present field is shown as it is (0 and "" too), an *)
(* absent one as N/A, an absent wind_direction as nothing.                *)
C6_ReportLayout ==
    \A c \in DOMAIN pc :
        entry[c] = "format" /\ Finished(c) /\ HasRecords(response[c])
        /\ date[c] \in GoodDates =>
            Returned(c, ReportOf(location[c], date[c], DataOf(response[c])[1]))

C6_Witness ==
    \E c \in DOMAIN pc :
        /\ entry[c] = "format"
        /\ date[c] = <<"2", "0", "2", "5", "-", "8", "-", "6">>
        /\ HasRecords(response[c])
        /\ DataOf(response[c])[1] = ZeroRecord
        /\ pc[c] = "done"
        /\ result[c][1] = "return"

(* C7: what the formatter shows as the location, in the report title and  *)
(* in the fallback message, is the caller's string title-cased with its   *)
(* surrounding whitespace, while the request carries the lower-cased,     *)
(* trimmed string.                                                        *)
C7_DisplayedLocationIsOriginal ==
    \A c \in DOMAIN pc :
        entry[c] = "format" /\ pc[c] = "done" =>
            /\ sent[c][1].params[1][2] = WireOf(location[c])
            /\ StartsWith(result[c][2][2],
                 IF HasRecords(response[c])
                 THEN TitleOf(location[c]) \o <<" ", "W", "e", "a", "t", "h", "e", "r", " ", "F", "o", "r", "e",
                   "c", "a", "s", "t", " ", "(">>
                 ELSE <<"N", "o", " ", "f", "o", "r", "e", "c", "a", "s", "t", " ", "a",
                   "v", "a", "i", "l", "a", "b", "l", "e", " ", "f", "o", "r", " ">>
                      \o TitleOf(location[c]) \o <<" ", "o", "n", " ">>)

C7_Witness ==
    \E c \in DOMAIN pc :
        /\ entry[c] = "format"
        /\ pc[c] = "done"
        /\ location[c] = <<" ", " ", "K", "u", "a", "l", "a", " ", "L", "u", "m", "p", "u",
          "r", " ", " ">>
        /\ HasRecords(response[c])
        /\ sent[c][1].params[1][2] = <<"k", "u", "a", "l", "a", " ", "l", "u", "m", "p", "u", "r">>
        /\ StartsWith(result[c][2][2], <<" ", " ", "K", "u", "a", "l", "a", " ", "L", "u", "m", "p", "u",
          "r", " ", " ", " ", "W", "e", "a", "t", "h", "e", "r">>)

(* C10: in a formatter call the date is parsed only after the fetch has   *)
(* returned, and only when the response carries a record; the request has *)
(* by then been sent once, and it carries the date as supplied even when  *)
(* the date is not parseable.                                             *)
C10_FetchBeforeParse ==
    \A c \in DOMAIN pc :
        entry[c] = "format" =>
            /\ \A i \in 1..Len(trace[c]) :
                 trace[c][i] = "strptime" =>
                     /\ \E j \in 1..(i - 1) : trace[c][j] = "request"
                     /\ \E j \in 1..(i - 1) : trace[c][j] = "fetched"
                     /\ HasRecords(response[c])
                     /\ Len(sent[c]) = 1
            /\ Finished(c) /\ FetchReturned(c) =>
                 (Executed(c, "strptime") <=> HasRecords(response[c]))
            /\ FetchReturned(c) /\ date[c] \in BadDates =>
                 /\ Len(sent[c]) = 1
                 /\ sent[c][1].params[2] = <<"date", date[c]>>

C10_Witness ==
    \E c \in DOMAIN pc :
        /\ entry[c] = "format"
        /\ date[c] = <<"0", "6", "-", "0", "8", "-", "2", "0", "2", "5">>
        /\ pc[c] = "done"
        /\ ~Executed(c, "strptime")
        /\ Len(sent[c]) = 1
        /\ sent[c][1].params[2][2] = <<"0", "6", "-", "0", "8", "-", "2", "0", "2", "5">>

\* what a formatter call returns or raises, from its own arguments and its
\* own response
OwnResult(c) ==
    IF ~HasRecords(response[c])
    THEN <<"return", PyStr(FallbackOf(location[c], date[c]))>>
    ELSE IF date[c] \in GoodDates
    THEN <<"return",
           PyStr(ReportOf(location[c], date[c], DataOf(response[c])[1]))>>
    ELSE <<"raise", "ValueError">>

\* everything a call holds
Locals(c) ==
    <<pc[c], entry[c], location[c], date[c], timeout[c], client[c], sent[c],
      response[c], pending[c], data[c], forecast[c], date_obj[c], result[c],
      trace[c]>>

C8_OwnClientOwnResult ==
    \A c \in DOMAIN pc :
        /\ \A d \in DOMAIN pc \ {c} : client[c] # 0 => client[d] # client[c]
        /\ pc[c] \in {"opened", "awaiting", "closing"} =>
               clients[client[c]] = "open"
        /\ pc[c] \in {"exited", "fetched", "parse", "render", "done", "raised"} =>
               clients[client[c]] = "closed"
        /\ \A i \in 1..Len(sent[c]) : sent[c][i].client = client[c]
        /\ Finished(c) => result[c] = OwnResult(c)

\* a step leaves every call that did not move as it was
C8_StepTouchesOneCall ==
    \A c \in DOMAIN pc : pc'[c] = pc[c] => Locals(c)' = Locals(c)

(* C8: formatter calls that run interleaved are independent: each opens a *)
(* client of its own, sends on it and closes it, its result is the one    *)
(* its own location, date and response give, and no step of one call      *)
(* changes anything another call holds.                                   *)
C8_ConcurrentCallsIndependent ==
    []C8_OwnClientOwnResult /\ [][C8_StepTouchesOneCall]_vars

C8_Witness ==
    \E c, d \in DOMAIN pc :
        /\ c # d
        /\ pc[c] = "awaiting" /\ pc[d] = "done"
        /\ location[c] # location[d]
        /\ client[c] # client[d]
        /\ clients[client[c]] = "open" /\ clients[client[d]] = "closed"
        /\ result[d] = OwnResult(d)

(* C9: two formatter calls with the same location and date whose          *)
(* responses have the same first record end the same way, whatever        *)
(* follows the first record and whatever else the body holds.             *)
C9_FirstRecordDecides ==
    \A c, d \in DOMAIN pc :
        /\ Finished(c) /\ Finished(d)
        /\ location[c] = location[d] /\ date[c] = date[d]
        /\ HasRecords(response[c]) /\ HasRecords(response[d])
        /\ DataOf(response[c])[1] = DataOf(response[d])[1]
        => result[c] = result[d]

C9_Witness ==
    \E c, d \in DOMAIN pc :
        /\ c # d
        /\ pc[c] = "done" /\ pc[d] = "done"
        /\ location[c] = location[d] /\ date[c] = date[d]
        /\ HasRecords(response[c]) /\ HasRecords(response[d])
        /\ response[c] # response[d]
        /\ Len(DataOf(response[c])) # Len(DataOf(response[d]))
        /\ result[c] = result[d]

====
